---- MODULE Spec2Model ----
(***************************************************************************)
(* A model of the standard_midi_file crate: the variable-length value      *)
(* codec (src/src/vlv.rs), the event decoder (src/src/track/event.rs),     *)
(* the track-chunk driver (src/src/track/mod.rs) and the document import   *)
(* (src/src/lib.rs, src/src/header.rs).                                    *)
(*                                                                         *)
(* A reader is a std::io::Cursor: the pair (stream, pos) of a byte         *)
(* sequence and a 0-based position.  Every decoding function is an         *)
(* operator from (stream, pos, ...) to a result record that carries the    *)
(* cursor position it leaves behind.                                       *)
(***************************************************************************)
EXTENDS Integers, Sequences, FiniteSets, TLC

VARIABLES
    stream,             \* the bytes under the reader's cursor
    pos,                \* the reader's cursor position (0-based)
    hist,               \* the calls made so far on (stream, pos), oldest first
    value,              \* the u32 handed to VLV::new / held by the VLV exported
    written,            \* the bytes the writer has received
    res,                \* what the last call returned
    saved,              \* the result of an earlier call, kept for comparison
    prior,              \* the previous_code_byte argument of Event::import
    pc,                 \* SMF::import / SMFTrack::import: position in the code
    header,             \* SMF::import: the decoded SMFHeader
    tracks,             \* SMF::import: the Vec<SMFTrack> built so far
    length,             \* SMFTrack::import: the declared length
    read_bytes,         \* SMFTrack::import: bytes consumed by whole records
    track_events,       \* SMFTrack::import: the Vec<TrackEvent> built so far
    previous_location,  \* SMFTrack::import: cursor position after the last record
    previous_code_byte, \* SMFTrack::import: the running status
    track_ret,          \* what the last SMFTrack::import returned
    smf_ret             \* what SMF::import returned

vars == <<stream, pos, hist, value, written, res, saved, prior, pc, header,
          tracks, length, read_bytes, track_events, previous_location,
          previous_code_byte, track_ret, smf_ret>>

readerVars == <<stream, pos>>
harnessVars == <<hist, value, written, res, saved, prior>>
trackVars == <<length, read_bytes, track_events, previous_location,
               previous_code_byte, track_ret>>
smfVars == <<pc, header, tracks, smf_ret>>

(***************************************************************************)
(* Values shared by all components.                                        *)
(***************************************************************************)

\* Option::None, for an Option<u8> (a byte is 0..255).
None == -1

\* No call has returned yet.
NoResult == [ok |-> FALSE, err |-> [kind |-> "NotCalled"]]

Byte == 0..255

\* value <<= 7 on a u32: the 25 low bits move up, the 7 high bits fall off.
Shl7(v) == (v % 2^25) * 128

HighBit(b) == b \div 128

Low7(b) == b % 128

Last(s) == s[Len(s)]

\* The last call made was op.
After(op) == hist # <<>> /\ hist[Len(hist)] = op

\* Result of a function that does not touch a reader.
Ret(v) == [ok |-> TRUE, val |-> v]

Fail(e) == [ok |-> FALSE, err |-> e]

\* Result of a function that reads: the value or error, and the cursor after.
Ok(v, p) == [ok |-> TRUE, val |-> v, pos |-> p]

Err(e, p) == [ok |-> FALSE, err |-> e, pos |-> p]

\* SMFError::IO: the byte source ran out (UnexpectedEof).
IOError == [kind |-> "IO"]

\* SMFError::VLV(VLVError::NumberTooBig(v))
NumberTooBig(v) == [kind |-> "NumberTooBig", arg |-> v]

\* SMFError::VLV(VLVError::VLVTooBig)
VLVTooBig == [kind |-> "VLVTooBig"]

NoPreviousEvent == [kind |-> "NoPreviousEvent"]

UnknownEvent(b) == [kind |-> "UnknownEvent", arg |-> b]

UnexpectedMetaEventLength(l) == [kind |-> "UnexpectedMetaEventLength", arg |-> l]

KeySignatureUnknownKey(k) == [kind |-> "KeySignatureUnknownKey", arg |-> k]

MagicNumber == [kind |-> "MagicNumber"]

\* ReadE::read_to_u8 on a Cursor: the byte at pos, or UnexpectedEof at or past
\* the end (a seek may leave the cursor past the end).
ReadU8(s, p) ==
    IF p < Len(s) THEN Ok(s[p + 1], p + 1) ELSE Err(IOError, p)

\* Read::read_exact of n bytes on a Cursor.
ReadExact(s, p, n) ==
    IF p + n <= Len(s)
    THEN Ok([i \in 1..n |-> s[p + i]], p + n)
    ELSE Err(IOError, p)

(***************************************************************************)
(* The variable-length value codec, src/src/vlv.rs.                        *)
(***************************************************************************)

\* A plausible slip: <= for < in the size table.
calc_vlv_length_inclusive(v) ==
    IF v <= 2^7 THEN Ret(1)
    ELSE IF v <= 2^14 THEN Ret(2)
    ELSE IF v <= 2^21 THEN Ret(3)
    ELSE IF v <= 2^28 THEN Ret(4)
    ELSE Fail(NumberTooBig(v))

calc_vlv_length(v) ==
    IF v < 2^7 THEN Ret(1)
    ELSE IF v < 2^14 THEN Ret(2)
    ELSE IF v < 2^21 THEN Ret(3)
    ELSE IF v < 2^28 THEN Ret(4)
    ELSE Fail(NumberTooBig(v))

\* A plausible slip: VLV::new that forgets the range check.
VLV_new_unchecked(v) == Ret([value |-> v])

VLV_new(v) ==
    LET l == calc_vlv_length(v)
    IN  IF l.ok THEN Ret([value |-> v]) ELSE Fail(l.err)

\* The loop of VLV::import, entered with real_length bytes already counted.
\* value |= byte & 0x7F fills the 7 low bits the shift has freed.
RECURSIVE VLV_import_loop(_, _, _, _)
VLV_import_loop(s, p, real_length, v) ==
    IF real_length + 1 > 4 THEN Err(VLVTooBig, p)
    ELSE LET r == ReadU8(s, p)
         IN  IF ~r.ok THEN r
             ELSE LET nv == Shl7(v) + Low7(r.val)
                  IN  IF HighBit(r.val) = 0
                      THEN Ok([value |-> nv], r.pos)
                      ELSE VLV_import_loop(s, r.pos, real_length + 1, nv)

\* A plausible slip: the length counter starts at 1.
VLV_import_from_one(s, p) == VLV_import_loop(s, p, 1, 0)

VLV_import(s, p) == VLV_import_loop(s, p, 0, 0)

\* The loop of VLV::partial_import: the byte is at hand before it is counted.
RECURSIVE VLV_partial_import_loop(_, _, _, _, _)
VLV_partial_import_loop(s, p, real_length, v, code_byte) ==
    IF real_length + 1 > 4 THEN Err(VLVTooBig, p)
    ELSE LET nv == Shl7(v) + Low7(code_byte)
         IN  IF HighBit(code_byte) = 0
             THEN Ok([value |-> nv], p)
             ELSE LET r == ReadU8(s, p)
                  IN  IF ~r.ok THEN r
                      ELSE VLV_partial_import_loop(s, r.pos, real_length + 1, nv, r.val)

VLV_partial_import(s, p, first_byte) == VLV_partial_import_loop(s, p, 0, 0, first_byte)

\* A plausible slip: the continuation bit is set on the last byte too.
export_byte_all_continued(v, real_length, idx) ==
    ((v \div 2^((real_length - idx - 1) * 7)) % 128) + 128

\* The byte VLV::export writes at index idx (0-based) of real_length.
export_byte(v, real_length, idx) ==
    LET shifted == v \div 2^((real_length - idx - 1) * 7)
        write_byte == shifted % 128
    IN  IF idx + 1 < real_length THEN write_byte + 128 ELSE write_byte

\* VLV::export: the bytes handed to the writer, in order.
VLV_export(v) ==
    LET l == calc_vlv_length(v)
    IN  IF ~l.ok THEN [ok |-> FALSE, err |-> l.err, out |-> <<>>]
        ELSE [ok |-> TRUE,
              out |-> [i \in 1..l.val |-> export_byte(v, l.val, i - 1)]]

(***************************************************************************)
(* The event decoder, src/src/track/event.rs.  An event is a record        *)
(* [type |-> the enum variant, body |-> the struct it wraps].              *)
(***************************************************************************)

\* n consecutive read_to_u8 calls: the bytes, or UnexpectedEof with the
\* cursor moved over the bytes that were there.
ReadU8s(s, p, n) ==
    IF p + n <= Len(s)
    THEN Ok([i \in 1..n |-> s[p + i]], p + n)
    ELSE Err(IOError, IF p > Len(s) THEN p ELSE Len(s))

\* reader.seek(SeekFrom::Current(n)) with n >= 0 on a Cursor: it never fails
\* and may leave the cursor past the end.
SeekCurrent(p, n) == p + n

\* ReadE::read_to_i8: the byte as a two's-complement i8.
I8(b) == IF b >= 128 THEN b - 256 ELSE b

\* The enum variant around a struct's import result.
Variant(tag, r) ==
    IF r.ok THEN Ok([type |-> tag, body |-> r.val], r.pos) ELSE r

NoteChange_import(s, p, code_byte, next_byte) ==
    LET r == ReadU8(s, p)
    IN  IF ~r.ok THEN r
        ELSE Ok([channel |-> code_byte % 16, key |-> next_byte,
                 velocity |-> r.val], r.pos)

PolyphonicKeyPressure_import(s, p, code_byte, next_byte) ==
    LET r == ReadU8(s, p)
    IN  IF ~r.ok THEN r
        ELSE Ok([channel |-> code_byte % 16, key |-> next_byte,
                 pressure |-> r.val], r.pos)

ControllerChange_import(s, p, code_byte, next_byte) ==
    LET r == ReadU8(s, p)
    IN  IF ~r.ok THEN r
        ELSE Ok([channel |-> code_byte % 16, controller_number |-> next_byte,
                 value |-> r.val], r.pos)

ProgramChange_import(code_byte, next_byte) ==
    [channel |-> code_byte % 16, program |-> next_byte]

ChannelPressure_import(code_byte, next_byte) ==
    [channel |-> code_byte % 16, pressure |-> next_byte]

\* A plausible slip: the two data bytes taken as a big-endian u16.
PitchBend_import_big_endian(s, p, code_byte, next_byte) ==
    LET r == ReadU8(s, p)
    IN  IF ~r.ok THEN r
        ELSE Ok([channel |-> code_byte % 16,
                 value |-> next_byte * 256 + r.val], r.pos)

\* The byte read second is the high byte of the u16.
PitchBend_import(s, p, code_byte, next_byte) ==
    LET r == ReadU8(s, p)
    IN  IF ~r.ok THEN r
        ELSE Ok([channel |-> code_byte % 16,
                 value |-> r.val * 256 + next_byte], r.pos)

SystemExclusive_import(s, p, next_byte) ==
    LET l == VLV_partial_import(s, p, next_byte)
    IN  IF ~l.ok THEN l
        ELSE LET d == ReadExact(s, l.pos, l.val.value)
             IN  IF ~d.ok THEN d
                 ELSE Ok([length |-> l.val, data |-> d.val], d.pos)

SequenceNumber_import(s, p) ==
    LET l == VLV_import(s, p)
    IN  IF ~l.ok THEN l
        ELSE IF l.val.value < 2
        THEN Err(UnexpectedMetaEventLength(l.val.value), l.pos)
        ELSE LET d == ReadExact(s, l.pos, 2)
             IN  IF ~d.ok THEN d
                 ELSE Ok([sequence_number |-> d.val[1] * 256 + d.val[2]],
                         IF l.val.value > 2
                         THEN SeekCurrent(d.pos, l.val.value - 2)
                         ELSE d.pos)

\* U+FFFD REPLACEMENT CHARACTER
Replacement == 65533

\* String::from_utf8_lossy: the Unicode scalar values of d[i..], each maximal
\* invalid prefix of a sequence replaced by U+FFFD.
RECURSIVE Utf8Lossy(_, _)
Utf8Lossy(d, i) ==
    IF i > Len(d) THEN <<>>
    ELSE LET b == d[i]
             get(k) == IF k <= Len(d) THEN d[k] ELSE 0
             cont(k) == get(k) \div 64 = 2
             second3 == \/ b = 224 /\ get(i + 1) \in 160..191
                        \/ b \in 225..236 /\ get(i + 1) \in 128..191
                        \/ b = 237 /\ get(i + 1) \in 128..159
                        \/ b \in 238..239 /\ get(i + 1) \in 128..191
             second4 == \/ b = 240 /\ get(i + 1) \in 144..191
                        \/ b \in 241..243 /\ get(i + 1) \in 128..191
                        \/ b = 244 /\ get(i + 1) \in 128..143
         IN  IF b < 128 THEN <<b>> \o Utf8Lossy(d, i + 1)
             ELSE IF b \in 194..223
             THEN IF cont(i + 1)
                  THEN <<(b % 32) * 64 + (get(i + 1) % 64)>> \o Utf8Lossy(d, i + 2)
                  ELSE <<Replacement>> \o Utf8Lossy(d, i + 1)
             ELSE IF b \in 224..239
             THEN IF ~second3 THEN <<Replacement>> \o Utf8Lossy(d, i + 1)
                  ELSE IF ~cont(i + 2) THEN <<Replacement>> \o Utf8Lossy(d, i + 2)
                  ELSE <<(b % 16) * 4096 + (get(i + 1) % 64) * 64 + (get(i + 2) % 64)>>
                       \o Utf8Lossy(d, i + 3)
             ELSE IF b \in 240..244
             THEN IF ~second4 THEN <<Replacement>> \o Utf8Lossy(d, i + 1)
                  ELSE IF ~cont(i + 2) THEN <<Replacement>> \o Utf8Lossy(d, i + 2)
                  ELSE IF ~cont(i + 3) THEN <<Replacement>> \o Utf8Lossy(d, i + 3)
                  ELSE <<(b % 8) * 262144 + (get(i + 1) % 64) * 4096
                         + (get(i + 2) % 64) * 64 + (get(i + 3) % 64)>>
                       \o Utf8Lossy(d, i + 4)
             ELSE <<Replacement>> \o Utf8Lossy(d, i + 1)

TextMessage_import(s, p) ==
    LET l == VLV_import(s, p)
    IN  IF ~l.ok THEN l
        ELSE LET d == ReadExact(s, l.pos, l.val.value)
             IN  IF ~d.ok THEN d
                 ELSE Ok([length |-> l.val, text |-> Utf8Lossy(d.val, 1)], d.pos)

MIDIChannelPrefix_import(s, p) ==
    LET l == VLV_import(s, p)
    IN  IF ~l.ok THEN l
        ELSE IF l.val.value < 1
        THEN Err(UnexpectedMetaEventLength(l.val.value), l.pos)
        ELSE LET d == ReadU8(s, l.pos)
             IN  IF ~d.ok THEN d
                 ELSE Ok([channel |-> d.val],
                         IF l.val.value > 1
                         THEN SeekCurrent(d.pos, l.val.value - 1)
                         ELSE d.pos)

MIDIPort_import(s, p) ==
    LET l == VLV_import(s, p)
    IN  IF ~l.ok THEN l
        ELSE IF l.val.value < 1
        THEN Err(UnexpectedMetaEventLength(l.val.value), l.pos)
        ELSE LET d == ReadU8(s, l.pos)
             IN  IF ~d.ok THEN d
                 ELSE Ok([port |-> d.val],
                         IF l.val.value > 1
                         THEN SeekCurrent(d.pos, l.val.value - 1)
                         ELSE d.pos)

\* EndOfTrack {} has no field.
EndOfTrack_import(s, p) ==
    LET l == VLV_import(s, p)
    IN  IF ~l.ok THEN l
        ELSE Ok(<<>>, IF l.val.value # 0
                      THEN SeekCurrent(l.pos, l.val.value)
                      ELSE l.pos)

\* A plausible slip: the minimum length checked is 2, not 3.
Tempo_import_min2(s, p) ==
    LET l == VLV_import(s, p)
    IN  IF ~l.ok THEN l
        ELSE IF l.val.value < 2
        THEN Err(UnexpectedMetaEventLength(l.val.value), l.pos)
        ELSE LET d == ReadU8s(s, l.pos, 3)
             IN  IF ~d.ok THEN d
                 ELSE Ok([value |-> d.val[1] * 65536 + d.val[2] * 256 + d.val[3]],
                         IF l.val.value > 3
                         THEN SeekCurrent(d.pos, l.val.value - 1)
                         ELSE d.pos)

\* The three bytes are read most-significant first; a longer declared
\* length seeks length - 1 bytes on.
Tempo_import(s, p) ==
    LET l == VLV_import(s, p)
    IN  IF ~l.ok THEN l
        ELSE IF l.val.value < 3
        THEN Err(UnexpectedMetaEventLength(l.val.value), l.pos)
        ELSE LET d == ReadU8s(s, l.pos, 3)
             IN  IF ~d.ok THEN d
                 ELSE Ok([value |-> d.val[1] * 65536 + d.val[2] * 256 + d.val[3]],
                         IF l.val.value > 3
                         THEN SeekCurrent(d.pos, l.val.value - 1)
                         ELSE d.pos)

SMPTEOffset_import(s, p) ==
    LET l == VLV_import(s, p)
    IN  IF ~l.ok THEN l
        ELSE IF l.val.value < 5
        THEN Err(UnexpectedMetaEventLength(l.val.value), l.pos)
        ELSE LET d == ReadU8s(s, l.pos, 5)
             IN  IF ~d.ok THEN d
                 ELSE Ok([hours |-> d.val[1], minutes |-> d.val[2],
                          seconds |-> d.val[3], frames |-> d.val[4],
                          fractional_frames |-> d.val[5]],
                         IF l.val.value > 5
                         THEN SeekCurrent(d.pos, l.val.value - 1)
                         ELSE d.pos)

TimeSignature_import(s, p) ==
    LET l == VLV_import(s, p)
    IN  IF ~l.ok THEN l
        ELSE IF l.val.value < 4
        THEN Err(UnexpectedMetaEventLength(l.val.value), l.pos)
        ELSE LET d == ReadU8s(s, l.pos, 4)
             IN  IF ~d.ok THEN d
                 ELSE Ok([numerator |-> d.val[1], denominator |-> d.val[2],
                          clocks_between_metronome_clicks |-> d.val[3],
                          yes |-> d.val[4]],
                         IF l.val.value > 4
                         THEN SeekCurrent(d.pos, l.val.value - 1)
                         ELSE d.pos)

\* A plausible slip: every key byte but 0 taken as minor.
Key_import_nonzero_minor(s, p) ==
    LET k == ReadU8(s, p)
    IN  IF ~k.ok THEN k
        ELSE IF k.val = 0 THEN Ok("Major", k.pos)
        ELSE Ok("Minor", k.pos)

Key_import(s, p) ==
    LET k == ReadU8(s, p)
    IN  IF ~k.ok THEN k
        ELSE IF k.val = 0 THEN Ok("Major", k.pos)
        ELSE IF k.val = 1 THEN Ok("Minor", k.pos)
        ELSE Err(KeySignatureUnknownKey(k.val), k.pos)

KeySignature_import(s, p) ==
    LET l == VLV_import(s, p)
    IN  IF ~l.ok THEN l
        ELSE IF l.val.value < 2
        THEN Err(UnexpectedMetaEventLength(l.val.value), l.pos)
        ELSE LET f == ReadU8(s, l.pos)
             IN  IF ~f.ok THEN f
                 ELSE LET k == Key_import(s, f.pos)
                      IN  IF ~k.ok THEN k
                          ELSE Ok([flats_sharps |-> I8(f.val), key |-> k.val],
                                  IF l.val.value > 2
                                  THEN SeekCurrent(k.pos, l.val.value - 1)
                                  ELSE k.pos)

GenericMetaEvent_import(s, p) ==
    LET l == VLV_import(s, p)
    IN  IF ~l.ok THEN l
        ELSE LET d == ReadExact(s, l.pos, l.val.value)
             IN  IF ~d.ok THEN d
                 ELSE Ok([length |-> l.val, data |-> d.val], d.pos)

\* A plausible slip: running status without the check for a previous event;
\* the byte read stays the status byte.
resolve_status_unchecked(s, p, prev) ==
    LET c == ReadU8(s, p)
    IN  IF ~c.ok THEN c
        ELSE IF HighBit(c.val) = 0
        THEN Ok([code_byte |-> IF prev # None THEN prev ELSE c.val,
                 next_byte |-> c.val], c.pos)
        ELSE LET n == ReadU8(s, c.pos)
             IN  IF ~n.ok THEN n
                 ELSE Ok([code_byte |-> c.val, next_byte |-> n.val], n.pos)

\* A plausible slip: running status that reads a fresh byte as the first
\* data byte, as the explicit branch does.
resolve_status_reread(s, p, prev) ==
    LET c == ReadU8(s, p)
    IN  IF ~c.ok THEN c
        ELSE IF HighBit(c.val) = 0 /\ prev = None
        THEN Err(NoPreviousEvent, c.pos)
        ELSE LET n == ReadU8(s, c.pos)
             IN  IF ~n.ok THEN n
                 ELSE Ok([code_byte |-> IF HighBit(c.val) = 0 THEN prev ELSE c.val,
                          next_byte |-> n.val], n.pos)

\* Event::import, status resolution: the effective status byte and the
\* first data byte.
resolve_status(s, p, prev) ==
    LET c == ReadU8(s, p)
    IN  IF ~c.ok THEN c
        ELSE IF HighBit(c.val) = 0
        THEN IF prev # None
             THEN Ok([code_byte |-> prev, next_byte |-> c.val], c.pos)
             ELSE Err(NoPreviousEvent, c.pos)
        ELSE LET n == ReadU8(s, c.pos)
             IN  IF ~n.ok THEN n
                 ELSE Ok([code_byte |-> c.val, next_byte |-> n.val], n.pos)

\* A plausible slip: sub-type 7F gets the variant the enum holds for it.
meta_dispatch_sequencer_specific(s, p, next_byte) ==
    CASE next_byte = 0 -> Variant("SequenceNumber", SequenceNumber_import(s, p))
      [] next_byte = 1 -> Variant("Text", TextMessage_import(s, p))
      [] next_byte = 2 -> Variant("Copyright", TextMessage_import(s, p))
      [] next_byte = 3 -> Variant("SequenceTrackName", TextMessage_import(s, p))
      [] next_byte = 4 -> Variant("InstrumentName", TextMessage_import(s, p))
      [] next_byte = 5 -> Variant("Lyric", TextMessage_import(s, p))
      [] next_byte = 6 -> Variant("Marker", TextMessage_import(s, p))
      [] next_byte = 7 -> Variant("CuePoint", TextMessage_import(s, p))
      [] next_byte = 8 -> Variant("ProgramName", TextMessage_import(s, p))
      [] next_byte = 9 -> Variant("DeviceName", TextMessage_import(s, p))
      [] next_byte = 32 -> Variant("MIDIChannelPrefix", MIDIChannelPrefix_import(s, p))
      [] next_byte = 33 -> Variant("MIDIPort", MIDIPort_import(s, p))
      [] next_byte = 47 -> Variant("EndOfTrack", EndOfTrack_import(s, p))
      [] next_byte = 81 -> Variant("Tempo", Tempo_import(s, p))
      [] next_byte = 84 -> Variant("SMPTEOffset", SMPTEOffset_import(s, p))
      [] next_byte = 88 -> Variant("TimeSignature", TimeSignature_import(s, p))
      [] next_byte = 89 -> Variant("KeySignature", KeySignature_import(s, p))
      [] next_byte = 127 ->
            Variant("SequencerSpecificEvent", GenericMetaEvent_import(s, p))
      [] OTHER -> Variant("UnknownMetaEvent", GenericMetaEvent_import(s, p))

\* Event::import, the match on the meta sub-type.
meta_dispatch(s, p, next_byte) ==
    CASE next_byte = 0 -> Variant("SequenceNumber", SequenceNumber_import(s, p))
      [] next_byte = 1 -> Variant("Text", TextMessage_import(s, p))
      [] next_byte = 2 -> Variant("Copyright", TextMessage_import(s, p))
      [] next_byte = 3 -> Variant("SequenceTrackName", TextMessage_import(s, p))
      [] next_byte = 4 -> Variant("InstrumentName", TextMessage_import(s, p))
      [] next_byte = 5 -> Variant("Lyric", TextMessage_import(s, p))
      [] next_byte = 6 -> Variant("Marker", TextMessage_import(s, p))
      [] next_byte = 7 -> Variant("CuePoint", TextMessage_import(s, p))
      [] next_byte = 8 -> Variant("ProgramName", TextMessage_import(s, p))
      [] next_byte = 9 -> Variant("DeviceName", TextMessage_import(s, p))
      [] next_byte = 32 -> Variant("MIDIChannelPrefix", MIDIChannelPrefix_import(s, p))
      [] next_byte = 33 -> Variant("MIDIPort", MIDIPort_import(s, p))
      [] next_byte = 47 -> Variant("EndOfTrack", EndOfTrack_import(s, p))
      [] next_byte = 81 -> Variant("Tempo", Tempo_import(s, p))
      [] next_byte = 84 -> Variant("SMPTEOffset", SMPTEOffset_import(s, p))
      [] next_byte = 88 -> Variant("TimeSignature", TimeSignature_import(s, p))
      [] next_byte = 89 -> Variant("KeySignature", KeySignature_import(s, p))
      [] OTHER -> Variant("UnknownMetaEvent", GenericMetaEvent_import(s, p))

\* A plausible slip: among the status bytes F1 to FE, only F0 and FF are told
\* apart, the others are taken as system-exclusive continuations.
dispatch_low_nibble_unchecked(s, p, code_byte, next_byte) ==
    LET hi == code_byte \div 16
        lo == code_byte % 16
    IN  CASE hi = 8 -> Variant("NoteOff", NoteChange_import(s, p, code_byte, next_byte))
          [] hi = 9 -> Variant("NoteOn", NoteChange_import(s, p, code_byte, next_byte))
          [] hi = 10 -> Variant("PolyphonicKeyPressure",
                                PolyphonicKeyPressure_import(s, p, code_byte, next_byte))
          [] hi = 11 -> Variant("ControllerChange",
                                ControllerChange_import(s, p, code_byte, next_byte))
          [] hi = 12 -> Ok([type |-> "ProgramChange",
                            body |-> ProgramChange_import(code_byte, next_byte)], p)
          [] hi = 13 -> Ok([type |-> "ChannelPressure",
                            body |-> ChannelPressure_import(code_byte, next_byte)], p)
          [] hi = 14 -> Variant("PitchBend", PitchBend_import(s, p, code_byte, next_byte))
          [] hi = 15 /\ lo = 0 ->
                Variant("SystemExclusiveF0", SystemExclusive_import(s, p, next_byte))
          [] hi = 15 /\ lo = 15 -> meta_dispatch(s, p, next_byte)
          [] hi = 15 /\ lo \notin {0, 15} ->
                Variant("SystemExclusiveF7", SystemExclusive_import(s, p, next_byte))
          [] OTHER -> Err(UnknownEvent(code_byte), p)

\* Event::import, the match on the status byte's nibbles.
dispatch(s, p, code_byte, next_byte) ==
    LET hi == code_byte \div 16
        lo == code_byte % 16
    IN  CASE hi = 8 -> Variant("NoteOff", NoteChange_import(s, p, code_byte, next_byte))
          [] hi = 9 -> Variant("NoteOn", NoteChange_import(s, p, code_byte, next_byte))
          [] hi = 10 -> Variant("PolyphonicKeyPressure",
                                PolyphonicKeyPressure_import(s, p, code_byte, next_byte))
          [] hi = 11 -> Variant("ControllerChange",
                                ControllerChange_import(s, p, code_byte, next_byte))
          [] hi = 12 -> Ok([type |-> "ProgramChange",
                            body |-> ProgramChange_import(code_byte, next_byte)], p)
          [] hi = 13 -> Ok([type |-> "ChannelPressure",
                            body |-> ChannelPressure_import(code_byte, next_byte)], p)
          [] hi = 14 -> Variant("PitchBend", PitchBend_import(s, p, code_byte, next_byte))
          [] hi = 15 /\ lo = 0 ->
                Variant("SystemExclusiveF0", SystemExclusive_import(s, p, next_byte))
          [] hi = 15 /\ lo = 7 ->
                Variant("SystemExclusiveF7", SystemExclusive_import(s, p, next_byte))
          [] hi = 15 /\ lo = 15 -> meta_dispatch(s, p, next_byte)
          [] OTHER -> Err(UnknownEvent(code_byte), p)

\* Event::import, its last line: Ok((new_event, code_byte)), unless the
\* struct's import has failed.
event_and_status(code_byte, e) ==
    IF ~e.ok THEN e
    ELSE Ok([event |-> e.val, code_byte |-> code_byte], e.pos)

\* Event::import from the match on: st is what status resolution returned.
dispatch_resolved(s, st) ==
    IF ~st.ok THEN st
    ELSE event_and_status(st.val.code_byte,
                          dispatch(s, st.pos, st.val.code_byte, st.val.next_byte))

\* Event::import: the event and the status byte to carry forward.
Event_import(s, p, prev) == dispatch_resolved(s, resolve_status(s, p, prev))

(***************************************************************************)
(* The codec under test: tests/vlv.rs calls new, export, seek(Start(0))    *)
(* and import on one value or one byte chain, in these orders.             *)
(***************************************************************************)

\* Longest byte chain handed to VLV::import.
MaxChainLen == 5

\* The 7-bit groups the values under test are made of.
Groups == {0, 1, 127}

\* u32 values: every combination of four groups, and values of 2^28 and more
\* (up to 2^31 - 1, the largest integer the checker represents).
VLVValues ==
    {g3 * 2^21 + g2 * 2^14 + g1 * 2^7 + g0 : g3 \in Groups, g2 \in Groups, g1 \in Groups, g0 \in Groups}
    \cup {2^28, 2^28 + 1, 2^30, 2147483647}

\* The bytes the chains under test are made of.
ChainBytes == {0, 127, 128, 129, 255}

SeqsUpTo(S, n) == UNION {[1..k -> S] : k \in 0..n}

VLVChains == SeqsUpTo(ChainBytes, MaxChainLen)

InitIdle ==
    /\ pc = "idle"
    /\ header = <<>>
    /\ tracks = <<>>
    /\ length = 0
    /\ read_bytes = 0
    /\ track_events = <<>>
    /\ previous_location = 0
    /\ previous_code_byte = None
    /\ track_ret = NoResult
    /\ smf_ret = NoResult

InitVLV ==
    /\ \/ value \in VLVValues /\ stream = <<>>
       \/ value = 0 /\ stream \in VLVChains
    /\ pos = 0
    /\ hist = <<>>
    /\ written = <<>>
    /\ res = NoResult
    /\ saved = NoResult
    /\ prior = None
    /\ InitIdle

\* VLV::new(value), or VLV::new(my_vlv.value) on the VLV just imported.
NewVLV ==
    /\ \/ hist = <<>> /\ value' = value
       \/ hist = <<"import">> /\ res.ok /\ value' = res.val.value
    /\ res' = VLV_new(value')
    /\ hist' = Append(hist, "new")
    /\ UNCHANGED <<stream, pos, written, saved, prior, trackVars, smfVars>>

\* my_vlv.export(&mut data) on the VLV made by new, or on a VLV built
\* directly from its public field.
ExportVLV ==
    /\ \/ hist = <<>>
       \/ After("new") /\ res.ok
    /\ LET e == VLV_export(value)
       IN  /\ written' = written \o e.out
           /\ res' = IF e.ok THEN Ret(Len(e.out)) ELSE Fail(e.err)
    /\ hist' = Append(hist, "export")
    /\ UNCHANGED <<stream, pos, value, saved, prior, trackVars, smfVars>>

\* data.seek(SeekFrom::Start(0)): the written bytes become the reader's.
Rewind ==
    /\ After("export") /\ res.ok
    /\ stream' = written
    /\ pos' = 0
    /\ hist' = Append(hist, "rewind")
    /\ UNCHANGED <<value, written, res, saved, prior, trackVars, smfVars>>

\* VLV::import(&mut reader)
ImportVLV ==
    /\ \/ hist = <<>>
       \/ After("rewind")
    /\ res' = VLV_import(stream, pos)
    /\ pos' = res'.pos
    /\ hist' = Append(hist, "import")
    /\ UNCHANGED <<stream, value, written, saved, prior, trackVars, smfVars>>

\* VLV::partial_import(&mut reader, first_byte) on the same bytes: the first
\* byte of the stream is at hand and the reader stands behind it, as in
\* SystemExclusive::import.  The outcome of VLV::import is kept.
PartialImportVLV ==
    /\ hist = <<"import">>
    /\ stream # <<>>
    /\ saved' = res
    /\ res' = VLV_partial_import(stream, 1, stream[1])
    /\ pos' = res'.pos
    /\ hist' = Append(hist, "partial_import")
    /\ UNCHANGED <<stream, value, written, prior, trackVars, smfVars>>

NextVLV == NewVLV \/ ExportVLV \/ Rewind \/ ImportVLV \/ PartialImportVLV

SpecVLV == InitVLV /\ [][NextVLV]_vars

(***************************************************************************)
(* Properties of the codec, checked under SpecVLV.                         *)
(***************************************************************************)

\* The size table of the specification's section 4.1.
SizeTable(v) ==
    IF v < 2^7 THEN 1 ELSE IF v < 2^14 THEN 2 ELSE IF v < 2^21 THEN 3 ELSE 4

\* The number made of the low 7 bits of b[1..k], most-significant group first.
RECURSIVE GroupsValue(_, _)
GroupsValue(b, k) ==
    IF k = 0 THEN 0 ELSE GroupsValue(b, k - 1) * 128 + (b[k] % 128)

\* b[1..k] is a chain: the high bit set on every byte but the last.
IsChain(b, k) ==
    /\ k >= 1
    /\ Len(b) >= k
    /\ b[k] < 128
    /\ \A i \in 1..(k - 1) : b[i] >= 128

\* b is the canonical encoding of v: a whole chain of 1 to 4 bytes carrying
\* v's groups, with no all-zero group in front of another group.
IsCanonicalOf(b, v) ==
    /\ Len(b) \in 1..4
    /\ IsChain(b, Len(b))
    /\ GroupsValue(b, Len(b)) = v
    /\ Len(b) > 1 => b[1] # 128

\* C6: for every v < 2^28, export writes 1, 2, 3 or 4 bytes as the size table
\* says, and import on the written bytes returns v, consuming all of them.
C6_ExportThenImport ==
    value < 2^28 =>
        /\ After("export") =>
              /\ res.ok
              /\ res.val = SizeTable(value)
              /\ Len(written) = SizeTable(value)
        /\ (After("import") /\ Len(hist) >= 3) =>
              /\ res.ok
              /\ res.val.value = value
              /\ res.pos = Len(written)

C6_Witness ==
    /\ hist = <<"new", "export", "rewind", "import">>
    /\ value >= 2^21 /\ value < 2^28
    /\ res.ok /\ res.val.value = value
    /\ Len(written) = 4

\* C7: import succeeds on every chain of 1 to 4 bytes, minimal or not, with
\* the concatenation of the low 7 bits, and stops right after the chain; on
\* four bytes that all have the high bit set it fails with VLVTooBig.
C7_ImportAcceptsChains ==
    hist = <<"import">> =>
        /\ \A k \in 1..4 :
              IsChain(stream, k) => res = Ok([value |-> GroupsValue(stream, k)], k)
        /\ (Len(stream) >= 4 /\ \A i \in 1..4 : stream[i] >= 128) =>
              (~res.ok /\ res.err = VLVTooBig)

C7_Witness ==
    /\ hist = <<"import">>
    /\ stream = <<128, 128, 128, 0>>
    /\ res.ok /\ res.val.value = 0 /\ res.pos = 4

\* C8: VLV::new(v) and export of a VLV holding v fail with NumberTooBig(v)
\* for every v >= 2^28, export then writing no byte; both succeed below 2^28.
C8_NumberTooBig ==
    /\ hist = <<"new">> =>
          IF value >= 2^28 THEN res = Fail(NumberTooBig(value)) ELSE res.ok
    /\ hist = <<"export">> =>
          IF value >= 2^28
          THEN res = Fail(NumberTooBig(value)) /\ written = <<>>
          ELSE res.ok

C8_Witness ==
    /\ hist = <<"export">>
    /\ value = 2^28
    /\ ~res.ok
    /\ written = <<>>

\* C9: for every v < 2^28 export writes the canonical encoding of v, and a
\* canonical encoding that is imported and exported again is written back
\* byte for byte.
C9_ExportIsCanonical ==
    /\ (After("export") /\ value < 2^28) => IsCanonicalOf(written, value)
    /\ (/\ hist = <<"import", "new", "export">>
        /\ IsCanonicalOf(stream, GroupsValue(stream, Len(stream))))
          => written = stream

C9_Witness ==
    /\ hist = <<"import", "new", "export">>
    /\ stream = <<129, 128, 0>>
    /\ written = stream

(***************************************************************************)
(* The event decoder under test: Event::import is called on one stream     *)
(* with one previous_code_byte; a stream decoded with running status is    *)
(* then given the status byte explicitly and decoded again.                *)
(***************************************************************************)

\* Longest stream of freely chosen bytes.
MaxShortLen == 3

\* Largest declared length of a meta or system-exclusive payload.
MaxMetaLen == 6

\* Data bytes, status bytes of each family, and bytes that are no status.
EventBytes == {0, 2, 64, 129, 144, 197, 240, 241, 255}

ShortStreams == SeqsUpTo(EventBytes, MaxShortLen)

ShortPriors == {None, 69, 144, 197, 240, 255}

\* A status byte, or none, followed by two data bytes.
VoiceData == {<<d1, d2>> : d1 \in {0, 64}, d2 \in {0, 127}}

\* Meta sub-types: the fixed-payload ones, a text one, EndOfTrack, 0x7F and
\* one that has no meaning.
MetaSubtypes == {0, 1, 32, 33, 47, 81, 84, 88, 89, 127, 10}

\* Payload bytes: k consecutive byte values, the first one first.
Payload(first, k) == [i \in 1..k |-> (first + i - 1) % 256]

PayloadFirsts == {255, 0, 1}

\* A declared length l as a minimal chain and as a chain with a leading
\* 0x80 group.
LengthChains(l) == {<<l>>, <<128, l>>}

\* What follows the status byte of a meta event: the sub-type, the declared
\* length and between none and one more than the declared number of bytes.
MetaTails ==
    {<<st>> \o ch \o Payload(first, k) :
        st \in MetaSubtypes, ch \in UNION {LengthChains(l) : l \in 0..MaxMetaLen},
        first \in PayloadFirsts, k \in 0..(MaxMetaLen + 1)}

\* What follows the status byte of a system-exclusive event.
SysexTails ==
    {ch \o Payload(first, k) :
        ch \in UNION {LengthChains(l) : l \in 0..MaxMetaLen},
        first \in PayloadFirsts, k \in 0..(MaxMetaLen + 1)}

InitEvent ==
    /\ \/ stream \in ShortStreams /\ prior \in ShortPriors
       \/ \E st \in 128..255, d \in VoiceData :
             \/ stream = <<st>> \o d /\ prior = None
             \/ stream = d /\ prior = st
       \/ \E tl \in MetaTails :
             \/ stream = <<255>> \o tl /\ prior = None
             \/ stream = tl /\ prior = 255
       \/ \E st \in {240, 247}, tl \in SysexTails :
             \/ stream = <<st>> \o tl /\ prior = None
             \/ stream = tl /\ prior = st
    /\ pos = 0
    /\ hist = <<>>
    /\ value = 0
    /\ written = <<>>
    /\ res = NoResult
    /\ saved = NoResult
    /\ InitIdle

\* Event::import(&mut reader, prior)
ImportEvent ==
    /\ \/ hist = <<>>
       \/ After("resend")
    /\ res' = Event_import(stream, pos, prior)
    /\ pos' = res'.pos
    /\ hist' = Append(hist, "import")
    /\ UNCHANGED <<stream, value, written, saved, prior, trackVars, smfVars>>

\* The same event with its status byte sent explicitly: the byte that was
\* the running status is put in front of the stream, and the decoder is
\* handed any previous status or none.
ResendStatus ==
    /\ hist = <<"import">>
    /\ prior # None /\ prior >= 128
    /\ stream # <<>> /\ stream[1] < 128
    /\ saved' = res
    /\ stream' = <<prior>> \o stream
    /\ pos' = 0
    /\ prior' \in {None, 144}
    /\ hist' = Append(hist, "resend")
    /\ UNCHANGED <<value, written, res, trackVars, smfVars>>

NextEvent == ImportEvent \/ ResendStatus

SpecEvent == InitEvent /\ [][NextEvent]_vars

(***************************************************************************)
(* Properties of the event decoder, checked under SpecEvent.               *)
(***************************************************************************)

\* A status byte the decoder has an arm for.
AcceptedStatus(b) == b \div 16 \in 8..14 \/ b \in {240, 247, 255}

\* C2: for an accepted status byte s and a stream d that starts with a data
\* byte, decoding d with prior_status = s gives the same event and the same
\* carried-forward status byte s (or the same error) as decoding s followed
\* by d, whatever previous status that second call is given.
C2_RunningEqualsExplicit ==
    (hist = <<"import", "resend", "import">> /\ AcceptedStatus(stream[1])) =>
        /\ res.ok = saved.ok
        /\ res.ok => /\ res.val.event = saved.val.event
                     /\ res.val.code_byte = stream[1]
                     /\ saved.val.code_byte = stream[1]
                     /\ res.pos = saved.pos + 1
        /\ ~res.ok => res.err = saved.err

C2_Witness ==
    /\ hist = <<"import", "resend", "import">>
    /\ stream = <<144, 64, 127>>
    /\ saved.ok /\ res.ok
    /\ res.val.event = [type |-> "NoteOn",
                        body |-> [channel |-> 0, key |-> 64, velocity |-> 127]]
    /\ saved.val = res.val

\* The fixed-payload meta sub-types and the number of field bytes of each.
FixedMetaMin ==
    [st \in {0, 32, 33, 81, 89, 88, 84} |->
        CASE st = 0 -> 2 [] st = 32 -> 1 [] st = 33 -> 1 [] st = 81 -> 3
          [] st = 89 -> 2 [] st = 88 -> 4 [] st = 84 -> 5]

\* The stream holds one meta event, decoded from position 0 with the status
\* byte explicit or inherited.
MetaDecoded ==
    /\ hist = <<"import">>
    /\ stream # <<>>
    /\ \/ stream[1] = 255 /\ Len(stream) >= 2
       \/ stream[1] < 128 /\ prior = 255

\* Where the sub-type byte of that meta event is (1-based), and what the
\* length chain after it decodes to.
MetaSubtype == IF stream[1] = 255 THEN stream[2] ELSE stream[1]

MetaLength == VLV_import(stream, IF stream[1] = 255 THEN 2 ELSE 1)

\* C4: a fixed-payload meta event with minimum m and declared length L >= m
\* that decodes successfully leaves the cursor exactly L bytes after the end
\* of the length chain.
C4_SurplusSkipped ==
    (/\ MetaDecoded
     /\ MetaSubtype \in DOMAIN FixedMetaMin
     /\ MetaLength.ok
     /\ MetaLength.val.value >= FixedMetaMin[MetaSubtype]
     /\ res.ok)
        => res.pos = MetaLength.pos + MetaLength.val.value

C10_NoPreviousEvent ==
    (/\ hist = <<"import">>
     /\ prior = None
     /\ stream # <<>>
     /\ stream[1] < 128)
        => /\ ~res.ok
           /\ res.err = NoPreviousEvent

C10_Witness ==
    /\ hist = <<"import">>
    /\ prior = None
    /\ stream = <<64, 2>>
    /\ ~res.ok
    /\ res.err = NoPreviousEvent

(***************************************************************************)
(* The header chunk, src/src/header.rs.                                    *)
(***************************************************************************)

UnexpectedMThdLength(l) == [kind |-> "UnexpectedMThdLength", arg |-> l]

UnknownFormat(x) == [kind |-> "UnknownFormat", arg |-> x]

NoTracks == [kind |-> "NoTracks"]

\* The ASCII tags 'MTrk' and 'MThd'.
MTrk == <<77, 84, 114, 107>>

MThd == <<77, 84, 104, 100>>

\* MagicNumberCheck::check_magic_number: read as many bytes as the tag has
\* and compare; a short read and a mismatch both end as SMFError::MagicNumber.
check_magic_number(s, p, tag) ==
    LET d == ReadExact(s, p, Len(tag))
    IN  IF ~d.ok THEN Err(MagicNumber, d.pos)
        ELSE IF d.val # tag THEN Err(MagicNumber, d.pos)
        ELSE Ok(tag, d.pos)

\* ReadE::read_be_to_u16 and read_be_to_u32.
read_be_to_u16(s, p) ==
    LET d == ReadExact(s, p, 2)
    IN  IF ~d.ok THEN d ELSE Ok(d.val[1] * 256 + d.val[2], d.pos)

read_be_to_u32(s, p) ==
    LET d == ReadExact(s, p, 4)
    IN  IF ~d.ok THEN d
        ELSE Ok(d.val[1] * 16777216 + d.val[2] * 65536 + d.val[3] * 256 + d.val[4],
                d.pos)

Format_import(s, p) ==
    LET f == read_be_to_u16(s, p)
    IN  IF ~f.ok THEN f
        ELSE IF f.val = 0 THEN Ok("SingleTrack", f.pos)
        ELSE IF f.val = 1 THEN Ok("MultipleTrack", f.pos)
        ELSE IF f.val = 2 THEN Ok("MultipleSong", f.pos)
        ELSE Err(UnknownFormat(f.val), f.pos)

TimeScale_import(s, p) ==
    LET d == read_be_to_u16(s, p)
    IN  IF ~d.ok THEN d
        ELSE IF d.val >= 32768
        THEN Ok([type |-> "SMPTECompatible",
                 body |-> <<I8(d.val \div 256), d.val % 256>>], d.pos)
        ELSE Ok([type |-> "TicksPerQuarterNote", body |-> d.val], d.pos)

\* SMFHeader::import.  The tag it checks for is 'MTrk'.
SMFHeader_import(s, p) ==
    LET mg == check_magic_number(s, p, MTrk)
    IN  IF ~mg.ok THEN mg
        ELSE LET l == read_be_to_u32(s, mg.pos)
        IN  IF ~l.ok THEN l
        ELSE IF l.val < 6 THEN Err(UnexpectedMThdLength(l.val), l.pos)
        ELSE LET f == Format_import(s, l.pos)
        IN  IF ~f.ok THEN f
        ELSE LET n == read_be_to_u16(s, f.pos)
        IN  IF ~n.ok THEN n
        ELSE IF n.val = 0 THEN Err(NoTracks, n.pos)
        ELSE LET d == TimeScale_import(s, n.pos)
        IN  IF ~d.ok THEN d
        ELSE Ok([length |-> l.val, format |-> f.val, nb_tracks |-> n.val,
                 time_division |-> d.val],
                IF l.val > 6 THEN SeekCurrent(d.pos, l.val - 6) ELSE d.pos)

(***************************************************************************)
(* The track-chunk driver, src/src/track/mod.rs, and SMF::import,          *)
(* src/src/lib.rs.  One call of SMF::import, or of SMFTrack::import alone  *)
(* (header = <<>>), runs through the actions below; pc is its position:    *)
(*   "import"  SMF::import entered                                         *)
(*   "for"     at the head of SMF::import's loop over the tracks           *)
(*   "track"   SMFTrack::import entered                                    *)
(*   "while"   at the head of SMFTrack::import's loop over the events      *)
(*   "done"    the call has returned Ok                                    *)
(*   "failed"  the call has returned Err                                   *)
(***************************************************************************)

\* A plausible slip: a meta or system-exclusive event cancels running status,
\* as the MIDI wire protocol has it.
track_event_and_status_cancelling(delta_time, e) ==
    IF ~e.ok THEN e
    ELSE Ok([track_event |-> [delta_time |-> delta_time, event |-> e.val.event],
             code_byte |-> IF e.val.code_byte >= 240 THEN None
                           ELSE e.val.code_byte], e.pos)

\* TrackEvent::import, its last line: the pair of the track event and the
\* status byte, unless Event::import has failed.
track_event_and_status(delta_time, e) ==
    IF ~e.ok THEN e
    ELSE Ok([track_event |-> [delta_time |-> delta_time, event |-> e.val.event],
             code_byte |-> e.val.code_byte], e.pos)

\* TrackEvent::import after the delta-time: dt is what VLV::import returned.
event_after_delta(s, prev, dt) ==
    IF ~dt.ok THEN dt
    ELSE track_event_and_status(dt.val, Event_import(s, dt.pos, prev))

\* TrackEvent::import: the delta-time, then the event.
TrackEvent_import(s, p, prev) == event_after_delta(s, prev, VLV_import(s, p))

\* A plausible slip: <= for < in the loop condition.
while_condition_inclusive(rb, len) == rb <= len

\* while read_bytes < u64::from(length)
while_condition(rb, len) == rb < len

\* A plausible slip: an inner error ends the track with the events decoded so
\* far instead of failing the import.
error_swallowed(e, p) ==
    /\ pos' = p
    /\ track_ret' = Ret([length |-> length, track_events |-> track_events])
    /\ IF header = <<>>
       THEN pc' = "done" /\ UNCHANGED tracks
       ELSE pc' = "for" /\ tracks' = Append(tracks, track_ret'.val)
    /\ UNCHANGED smf_ret

\* The ? operator in SMFTrack::import, and the one around it in SMF::import:
\* the error is returned as it is, by both.
error_returned(e, p) ==
    /\ pos' = p
    /\ pc' = "failed"
    /\ track_ret' = Fail(e)
    /\ smf_ret' = IF header = <<>> THEN smf_ret ELSE Fail(e)
    /\ UNCHANGED tracks

\* SMF::import up to its loop: the header.
ImportHeader ==
    /\ pc = "import"
    /\ \E h \in {SMFHeader_import(stream, pos)} :
           /\ pos' = h.pos
           /\ IF h.ok
              THEN pc' = "for" /\ header' = <<h.val>> /\ UNCHANGED smf_ret
              ELSE pc' = "failed" /\ smf_ret' = Fail(h.err) /\ UNCHANGED header
    /\ UNCHANGED <<stream, harnessVars, trackVars, tracks>>

\* A plausible slip: the status byte of the track before is carried over.
code_byte_carried_over(before) == before

\* let mut previous_code_byte = None, whatever an earlier call has left.
code_byte_at_track_start(before) == None

\* SMFTrack::import up to its loop: the tag, the declared length, the locals.
TrackBegin ==
    /\ \/ pc = "track"
       \/ pc = "for" /\ Len(tracks) < header[1].nb_tracks
    /\ \E mg \in {check_magic_number(stream, pos, MTrk)} :
        \E l \in {read_be_to_u32(stream, mg.pos)} :
           IF ~mg.ok
           THEN error_returned(mg.err, mg.pos)
                /\ UNCHANGED <<length, read_bytes, track_events,
                               previous_location, previous_code_byte>>
           ELSE IF ~l.ok
           THEN error_returned(l.err, l.pos)
                /\ UNCHANGED <<length, read_bytes, track_events,
                               previous_location, previous_code_byte>>
           ELSE /\ pos' = l.pos
                /\ pc' = "while"
                /\ length' = l.val
                /\ read_bytes' = 0
                /\ track_events' = <<>>
                /\ previous_location' = l.pos
                /\ previous_code_byte' = code_byte_at_track_start(previous_code_byte)
                /\ UNCHANGED <<tracks, track_ret, smf_ret>>
    /\ UNCHANGED <<stream, harnessVars, header>>

\* A plausible slip: the event is decoded from a reader that ends at the
\* declared length of the track, as with reader.take(length).
event_reader_limited(s, p, rb, len) ==
    IF p - rb + len < Len(s) THEN [i \in 1..(p - rb + len) |-> s[i]] ELSE s

\* TrackEvent::import(reader, previous_code_byte): the reader of the whole
\* file is handed on, wherever the track is declared to end.
event_reader(s, p, rb, len) == s

\* One turn of the loop of SMFTrack::import.
TrackEventStep ==
    /\ pc = "while"
    /\ while_condition(read_bytes, length)
    /\ \E answ \in {TrackEvent_import(event_reader(stream, pos, read_bytes, length),
                                       pos, previous_code_byte)} :
           IF ~answ.ok
           THEN error_returned(answ.err, answ.pos)
                /\ UNCHANGED <<length, read_bytes, track_events,
                               previous_location, previous_code_byte>>
           ELSE /\ pos' = answ.pos
                /\ track_events' = Append(track_events, answ.val.track_event)
                /\ previous_code_byte' = answ.val.code_byte
                /\ read_bytes' = read_bytes + (answ.pos - previous_location)
                /\ previous_location' = answ.pos
                /\ UNCHANGED <<pc, length, tracks, track_ret, smf_ret>>
    /\ UNCHANGED <<stream, harnessVars, header>>

\* The loop of SMFTrack::import is left: Ok(SMFTrack { length, track_events }),
\* which SMF::import pushes.
TrackEnd ==
    /\ pc = "while"
    /\ ~while_condition(read_bytes, length)
    /\ track_ret' = Ret([length |-> length, track_events |-> track_events])
    /\ IF header = <<>>
       THEN pc' = "done" /\ UNCHANGED tracks
       ELSE pc' = "for" /\ tracks' = Append(tracks, track_ret'.val)
    /\ UNCHANGED <<stream, pos, harnessVars, header, length, read_bytes,
                   track_events, previous_location, previous_code_byte, smf_ret>>

\* The loop of SMF::import is left: Ok(SMF { header, tracks }).
ImportDone ==
    /\ pc = "for"
    /\ Len(tracks) >= header[1].nb_tracks
    /\ pc' = "done"
    /\ smf_ret' = Ret([header |-> header[1], tracks |-> tracks])
    /\ UNCHANGED <<stream, pos, harnessVars, header, tracks, trackVars>>

(***************************************************************************)
(* The files decoded.                                                      *)
(***************************************************************************)

\* Most tracks a file holds or its header declares.
MaxTracks == 2

\* Most records in the event stream of a track decoded alone.
MaxRecords == 3

\* Largest declared length of a track decoded alone.
MaxDeclared == 9

BE16(n) == <<n \div 256, n % 256>>

BE32(n) == <<n \div 16777216, (n \div 65536) % 256, (n \div 256) % 256, n % 256>>

RECURSIVE Flatten(_)
Flatten(ss) == IF ss = <<>> THEN <<>> ELSE Head(ss) \o Flatten(Tail(ss))

\* A track chunk: the tag, the declared length, the event stream.
Chunk(n, body) == MTrk \o BE32(n) \o body

HeaderBytes(tag, len, fmt, n, div) ==
    tag \o BE32(len) \o BE16(fmt) \o BE16(n) \o BE16(div)

\* Records and broken records, a delta-time in front of each.
NoteOnRecord == <<0, 144, 60, 64>>

RunningRecord == <<0, 62, 0>>

ProgramChangeRecord == <<0, 193, 5>>

EndOfTrackRecord == <<0, 255, 47, 0>>

TempoRecord == <<129, 0, 255, 81, 4, 7, 161, 32, 0>>

UnknownRecord == <<0, 241, 0>>

LongDeltaRecord == <<129, 129, 129, 129, 0>>

CutRecord == <<0, 144, 60>>

\* System-exclusive events of one data byte, and a record without a status
\* byte that continues either of them (or a note, or a text event).
SysexF0Record == <<0, 240, 1, 5>>

SysexF7Record == <<0, 247, 1, 5>>

RunningSysexRecord == <<0, 1, 5>>

Records ==
    {NoteOnRecord, RunningRecord, ProgramChangeRecord, EndOfTrackRecord,
     TempoRecord, UnknownRecord, LongDeltaRecord, CutRecord, SysexF0Record,
     SysexF7Record, RunningSysexRecord}

\* SMFTrack::import called on a reader that holds one chunk.
InitTrack ==
    /\ \/ \E n \in 0..MaxDeclared, rs \in SeqsUpTo(Records, MaxRecords) :
             stream = Chunk(n, Flatten(rs))
       \/ stream \in {MThd \o BE32(0), MTrk, MTrk \o <<0, 0>>}
    /\ pos = 0
    /\ pc = "track"
    /\ header = <<>>
    /\ tracks = <<>>
    /\ length = 0
    /\ read_bytes = 0
    /\ track_events = <<>>
    /\ previous_location = 0
    /\ previous_code_byte = None
    /\ track_ret = NoResult
    /\ smf_ret = NoResult
    /\ hist = <<>>
    /\ value = 0
    /\ written = <<>>
    /\ res = NoResult
    /\ saved = NoResult
    /\ prior = None

NextTrack == TrackBegin \/ TrackEventStep \/ TrackEnd

SpecTrack == InitTrack /\ [][NextTrack]_vars

\* The chunks of the files: whole tracks, a track that starts with running
\* status, one with an unknown status byte, an empty one, one whose last
\* event passes the declared length, one declared longer than it is, one with
\* a delta-time of five bytes.
SmfChunks ==
    {Chunk(4, NoteOnRecord),
     Chunk(9, NoteOnRecord \o LongDeltaRecord),
     Chunk(7, NoteOnRecord \o RunningRecord),
     Chunk(8, NoteOnRecord \o EndOfTrackRecord),
     Chunk(3, RunningRecord),
     Chunk(7, NoteOnRecord \o UnknownRecord),
     Chunk(0, <<>>),
     Chunk(2, NoteOnRecord),
     Chunk(5, NoteOnRecord)}

\* SMF::import called on a reader that holds a header and some chunks.
Init ==
    /\ \E tag \in {MTrk, MThd}, n \in 0..MaxTracks, cs \in SeqsUpTo(SmfChunks, MaxTracks) :
          stream = HeaderBytes(tag, 6, 1, n, 96) \o Flatten(cs)
    /\ pos = 0
    /\ pc = "import"
    /\ header = <<>>
    /\ tracks = <<>>
    /\ length = 0
    /\ read_bytes = 0
    /\ track_events = <<>>
    /\ previous_location = 0
    /\ previous_code_byte = None
    /\ track_ret = NoResult
    /\ smf_ret = NoResult
    /\ hist = <<>>
    /\ value = 0
    /\ written = <<>>
    /\ res = NoResult
    /\ saved = NoResult
    /\ prior = None

Next == ImportHeader \/ TrackBegin \/ TrackEventStep \/ TrackEnd \/ ImportDone

Spec == Init /\ [][Next]_vars

(***************************************************************************)
(* Properties of the track driver, checked under SpecTrack and Spec.       *)
(***************************************************************************)

\* Offset of the event stream of a chunk that starts at offset 0: the tag and
\* the declared length come first.
EventsStart == Len(MTrk) + 4

\* The declared length of the chunk that starts at offset 0.
DeclaredLength(s) ==
    s[5] * 16777216 + s[6] * 65536 + s[7] * 256 + s[8]

\* One more record behind the records evs: r is what decoding it gave.
AppendRecord(evs, r) ==
    IF ~r.ok THEN r
    ELSE Ok([track_events |-> Append(evs, r.val.track_event),
             code_byte |-> r.val.code_byte], r.pos)

\* The record that follows the records before, decoded with their status byte.
NextRecord(s, before) ==
    IF ~before.ok THEN before
    ELSE AppendRecord(before.val.track_events,
                      TrackEvent_import(s, before.pos, before.val.code_byte))

\* The first k records of the event stream of s, in stream order, with the
\* cursor behind them; or the error of the first that does not decode.
RECURSIVE FirstRecords(_, _)
FirstRecords(s, k) ==
    IF k = 0
    THEN Ok([track_events |-> <<>>, code_byte |-> None], EventsStart)
    ELSE NextRecord(s, FirstRecords(s, k - 1))

\* Bytes consumed by the first k records.
Cumulative(s, k) == FirstRecords(s, k).pos - EventsStart

IsEndOfTrack(te) == te.event.type = "EndOfTrack"

\* C1: SMFTrack::import with declared length N returns the first n records of
\* the event stream in stream order, n being the least count of whole records
\* whose cumulative size is at least N (0 when N is 0), and leaves the cursor
\* behind the n-th; an EndOfTrack event among them plays no part.
C1_StopsAtDeclaredLength ==
    (pc = "done" /\ track_ret.ok) =>
        \E n \in {Len(track_ret.val.track_events)} :
            /\ track_ret.val.length = DeclaredLength(stream)
            /\ FirstRecords(stream, n).ok
            /\ track_ret.val.track_events =
                   FirstRecords(stream, n).val.track_events
            /\ pos = FirstRecords(stream, n).pos
            /\ Cumulative(stream, n) >= track_ret.val.length
            /\ \A k \in 0..(n - 1) :
                   Cumulative(stream, k) < track_ret.val.length

\* Two records are returned of three: the declared length 5 falls inside the
\* second, the third stays undecoded, none is an EndOfTrack.
C1_Witness ==
    /\ pc = "done"
    /\ stream = Chunk(5, NoteOnRecord \o RunningRecord \o ProgramChangeRecord)
    /\ track_ret.ok
    /\ Len(track_ret.val.track_events) = 2
    /\ \A i \in 1..2 : ~IsEndOfTrack(track_ret.val.track_events[i])
    /\ pos = EventsStart + 7
    /\ pos < Len(stream)

\* C3: when a delta-time or an event inside a track does not decode,
\* SMFTrack::import returns that error and SMF::import returns it too; no
\* track is added for the events decoded before it, and the import takes no
\* step after it, so no later track is decoded.
C3_ErrorPropagates ==
    [][ /\ pc # "failed"
        /\ ( /\ pc = "while"
             /\ while_condition(read_bytes, length)
             /\ ~TrackEvent_import(stream, pos, previous_code_byte).ok )
           => /\ pc' = "failed"
              /\ track_ret' =
                     Fail(TrackEvent_import(stream, pos, previous_code_byte).err)
              /\ smf_ret' = track_ret'
              /\ tracks' = tracks ]_vars

\* The second record of the first of two tracks has the unknown status byte
\* F1: the import has failed with the first record decoded and the second
\* track still in the reader.
C3_Witness ==
    /\ pc = "failed"
    /\ header # <<>>
    /\ header[1].nb_tracks = 2
    /\ tracks = <<>>
    /\ Len(track_events) = 1
    /\ track_ret = Fail(UnknownEvent(241))
    /\ smf_ret = Fail(UnknownEvent(241))
    /\ pos < Len(stream)

\* The first byte of the event behind the delta-time at offset p has its
\* high bit clear; dt is what VLV::import returned for the delta-time.
data_byte_after(s, dt) ==
    /\ dt.ok
    /\ ReadU8(s, dt.pos).ok
    /\ HighBit(ReadU8(s, dt.pos).val) = 0

StartsWithDataByte(s, p) == data_byte_after(s, VLV_import(s, p))

\* C11: in SMF::import every track starts with running status unset: when the
\* first event of a track begins with a byte whose high bit is clear, the
\* import fails with NoPreviousEvent, whatever the earlier tracks held.
C11_RunningStatusResetPerTrack ==
    [][ ( /\ pc = "while"
          /\ header # <<>>
          /\ track_events = <<>>
          /\ while_condition(read_bytes, length)
          /\ StartsWithDataByte(stream, pos) )
        => /\ previous_code_byte = None
           /\ pc' = "failed"
           /\ track_ret' = Fail(NoPreviousEvent)
           /\ smf_ret' = Fail(NoPreviousEvent) ]_vars

\* The first track ended on a note-on, status byte 90; the second begins
\* with the data byte 3E and the import has failed on it.
C11_Witness ==
    /\ pc = "failed"
    /\ header # <<>>
    /\ Len(tracks) = 1
    /\ tracks[1].track_events # <<>>
    /\ Last(tracks[1].track_events).event.type = "NoteOn"
    /\ track_events = <<>>
    /\ StartsWithDataByte(stream, previous_location)
    /\ smf_ret = Fail(NoPreviousEvent)

\* The record at the cursor, decoded from the whole stream, starts before the
\* declared length is reached and ends behind it; r is that record decoded.
overruns(r, p, rb, len) ==
    /\ rb < len
    /\ r.ok
    /\ rb + (r.pos - p) > len

\* C12: an event that starts before byte N of the event stream and ends
\* after it is neither rejected nor cut: it is appended whole, the cursor is
\* left behind it, and the track is returned with it and with the cursor
\* there, past the declared boundary.
C12_LastEventOverruns ==
    [][ /\ ( /\ pc = "while"
             /\ overruns(TrackEvent_import(stream, pos, previous_code_byte),
                         pos, read_bytes, length) )
           => /\ pc' = "while"
              /\ track_events' =
                     Append(track_events,
                            TrackEvent_import(stream, pos,
                                              previous_code_byte).val.track_event)
              /\ pos' = TrackEvent_import(stream, pos, previous_code_byte).pos
              /\ pos' - EventsStart > length
        /\ ( /\ pc = "while"
             /\ track_events # <<>>
             /\ pos - EventsStart > length )
           => /\ pc' = "done"
              /\ track_ret' = Ret([length |-> length,
                                   track_events |-> track_events])
              /\ pos' = pos ]_vars

\* A note-on of four bytes in a track declared two bytes long, with a second
\* record behind it: the note-on is returned whole, the cursor is two bytes
\* past the declared end.
C12_Witness ==
    /\ pc = "done"
    /\ stream = Chunk(2, NoteOnRecord \o RunningRecord)
    /\ track_ret.ok
    /\ Len(track_ret.val.track_events) = 1
    /\ track_ret.val.track_events[1].event =
           [type |-> "NoteOn", body |-> [channel |-> 0, key |-> 60, velocity |-> 64]]
    /\ pos = EventsStart + 4

(***************************************************************************)
(* Further properties of the event decoder, checked under SpecEvent.       *)
(***************************************************************************)

\* The status byte in effect for the event at the head of the stream: its
\* first byte when that has the high bit set, else the previous status byte.
EffectiveStatus ==
    IF stream # <<>> /\ stream[1] >= 128 THEN stream[1] ELSE prior

\* Offset of the first data byte of that event.
DataStart == IF stream # <<>> /\ stream[1] >= 128 THEN 1 ELSE 0

\* Data bytes of the channel-voice message with high nibble hi.
VoiceDataLen(hi) == IF hi \in {12, 13} THEN 1 ELSE 2

\* The channel-voice event of the status byte st and the data bytes d1, d2.
VoiceEvent(st, d1, d2) ==
    CASE st \div 16 = 8 ->
            [type |-> "NoteOff",
             body |-> [channel |-> st % 16, key |-> d1, velocity |-> d2]]
      [] st \div 16 = 9 ->
            [type |-> "NoteOn",
             body |-> [channel |-> st % 16, key |-> d1, velocity |-> d2]]
      [] st \div 16 = 10 ->
            [type |-> "PolyphonicKeyPressure",
             body |-> [channel |-> st % 16, key |-> d1, pressure |-> d2]]
      [] st \div 16 = 11 ->
            [type |-> "ControllerChange",
             body |-> [channel |-> st % 16, controller_number |-> d1,
                       value |-> d2]]
      [] st \div 16 = 12 ->
            [type |-> "ProgramChange",
             body |-> [channel |-> st % 16, program |-> d1]]
      [] st \div 16 = 13 ->
            [type |-> "ChannelPressure",
             body |-> [channel |-> st % 16, pressure |-> d1]]
      [] st \div 16 = 14 ->
            [type |-> "PitchBend",
             body |-> [channel |-> st % 16, value |-> d2 * 256 + d1]]

\* The byte at offset i of the stream, 0 behind its end.
ByteAt(i) == IF i < Len(stream) THEN stream[i + 1] ELSE 0

\* C13: with an effective status byte of high nibble 8 to E and its data
\* bytes in the stream, Event::import returns the variant of the high nibble,
\* the low nibble as channel and the data bytes as they are (a note-on of
\* velocity 0 stays a note-on); the pitch-bend value is the second data byte
\* shifted left by 8, or-ed with the first.
C13_ChannelVoiceVariants ==
    ( /\ After("import")
      /\ EffectiveStatus \div 16 \in 8..14
      /\ Len(stream) >= DataStart + VoiceDataLen(EffectiveStatus \div 16) )
    => /\ res.ok
       /\ res.val.code_byte = EffectiveStatus
       /\ res.val.event =
              VoiceEvent(EffectiveStatus, ByteAt(DataStart), ByteAt(DataStart + 1))
       /\ res.pos = DataStart + VoiceDataLen(EffectiveStatus \div 16)

\* A pitch bend on channel 5 under running status, data bytes 40 7F: the
\* value is 7F40.
C13_Witness ==
    /\ hist = <<"import">>
    /\ prior = 229
    /\ stream = <<64, 127>>
    /\ res.ok
    /\ res.val.event = [type |-> "PitchBend",
                        body |-> [channel |-> 5, value |-> 32576]]

\* The meta event decoded is a KeySignature of declared length 2 or more
\* with both field bytes in the stream.
KeySignatureDecoded ==
    /\ MetaDecoded
    /\ MetaSubtype = 89
    /\ MetaLength.ok
    /\ MetaLength.val.value >= 2
    /\ Len(stream) >= MetaLength.pos + 2

\* C14: a KeySignature meta event of declared length 2 or more whose second
\* payload byte k is 0 decodes with key Major, with k = 1 with key Minor, and
\* with any other k fails with KeySignatureUnknownKey(k).
C14_KeySignatureKey ==
    KeySignatureDecoded =>
        \E k \in {stream[MetaLength.pos + 2]} :
            /\ k = 0 => /\ res.ok
                        /\ res.val.event.type = "KeySignature"
                        /\ res.val.event.body.key = "Major"
            /\ k = 1 => /\ res.ok
                        /\ res.val.event.type = "KeySignature"
                        /\ res.val.event.body.key = "Minor"
            /\ k \notin {0, 1} => /\ ~res.ok
                                  /\ res.err = KeySignatureUnknownKey(k)

\* FF 59 02 01 02: one sharp and the key byte 2.
C14_Witness ==
    /\ hist = <<"import">>
    /\ prior = None
    /\ stream = <<255, 89, 2, 1, 2>>
    /\ ~res.ok
    /\ res.err = KeySignatureUnknownKey(2)

\* The status bytes Event::import has no event for: F1 to F6 and F8 to FE.
UnknownStatus == (241..246) \cup (248..254)

\* C15: for an effective status byte s among F1..F6 and F8..FE Event::import
\* returns no event, and with the byte read behind an explicit status byte
\* in the stream it fails with UnknownEvent(s).
C15_UnknownEvent ==
    ( /\ After("import")
      /\ EffectiveStatus \in UnknownStatus )
    => /\ ~res.ok
       /\ Len(stream) > DataStart =>
              res.err = [kind |-> "UnknownEvent", arg |-> EffectiveStatus]

\* The status byte F8 inherited as running status, in front of two data bytes.
C15_Witness ==
    /\ hist = <<"import">>
    /\ prior = 248
    /\ stream = <<64, 127>>
    /\ ~res.ok
    /\ res.err = UnknownEvent(248)

(***************************************************************************)
(* Export: SMF::export (src/src/lib.rs), SMFHeader::export                 *)
(* (src/src/header.rs), SMFTrack::export and TrackEvent::export            *)
(* (src/src/track/mod.rs).  An export returns a record: ok, the error if   *)
(* not ok, and out, the bytes the writer has received by then.             *)
(***************************************************************************)

\* SMFError::VecHeaderTracksMismatch(nb_tracks, tracks.len())
VecHeaderTracksMismatch(n, l) ==
    [kind |-> "VecHeaderTracksMismatch", arg |-> <<n, l>>]

\* unimplemented!(): the call does not return, the thread panics.
Panicked == [kind |-> "panic", arg |-> "not implemented"]

Wrote(out) == [ok |-> TRUE, out |-> out]

Stopped(e, out) == [ok |-> FALSE, err |-> e, out |-> out]

\* WriteE::write_be_to_u16, write_be_to_u32, write_to_i8.
write_be_to_u16(v) == <<v \div 256, v % 256>>

write_be_to_u32(v) ==
    <<v \div 16777216, (v \div 65536) % 256, (v \div 256) % 256, v % 256>>

write_to_i8(v) == <<IF v < 0 THEN v + 256 ELSE v>>

Format_get_value(f) ==
    CASE f = "SingleTrack" -> 0
      [] f = "MultipleTrack" -> 1
      [] f = "MultipleSong" -> 2

Format_export(f) == write_be_to_u16(Format_get_value(f))

TimeScale_export(d) ==
    IF d.type = "TicksPerQuarterNote"
    THEN write_be_to_u16(d.body)
    ELSE write_to_i8(d.body[1]) \o <<d.body[2]>>

\* SMFHeader::export.  The tag it writes is 'MTrk', and it writes it before
\* it looks at the length.
SMFHeader_export(h) ==
    IF h.length # 6
    THEN Stopped(UnexpectedMThdLength(h.length), MTrk)
    ELSE IF h.nb_tracks = 0
    THEN Stopped(NoTracks,
                 MTrk \o write_be_to_u32(h.length) \o Format_export(h.format))
    ELSE Wrote(MTrk \o write_be_to_u32(h.length) \o Format_export(h.format)
                 \o write_be_to_u16(h.nb_tracks)
                 \o TimeScale_export(h.time_division))

\* Event::export, TrackEvent::export and SMFTrack::export: unimplemented!().
Event_export(e) == Stopped(Panicked, <<>>)

TrackEvent_export(te) == Stopped(Panicked, <<>>)

SMFTrack_export(tr) == Stopped(Panicked, <<>>)

\* SMF::export behind the header: the loop over the tracks stops in the
\* first track.export; hd is what the header's export returned.
tracks_after_header(hd, ts) ==
    IF ~hd.ok THEN hd
    ELSE IF ts = <<>> THEN hd
    ELSE Stopped(SMFTrack_export(ts[1]).err, hd.out \o SMFTrack_export(ts[1]).out)

\* A plausible slip: the header is written before the counts are compared.
SMF_export_header_first(h, ts) ==
    IF h.nb_tracks # Len(ts)
    THEN Stopped(VecHeaderTracksMismatch(h.nb_tracks, Len(ts)),
                 SMFHeader_export(h).out)
    ELSE tracks_after_header(SMFHeader_export(h), ts)

\* SMF::export
SMF_export(h, ts) ==
    IF h.nb_tracks # Len(ts)
    THEN Stopped(VecHeaderTracksMismatch(h.nb_tracks, Len(ts)), <<>>)
    ELSE tracks_after_header(SMFHeader_export(h), ts)

(***************************************************************************)
(* Export under test, with the imports that tests/header.rs and the        *)
(* round trips pair with it: one call is made on one document, header,     *)
(* track event or reader.                                                  *)
(***************************************************************************)

\* Most bytes a header is declared longer or shorter than six.
MaxHeaderSlack == 1

Formats == {"SingleTrack", "MultipleTrack", "MultipleSong"}

TimeScales ==
    {[type |-> "TicksPerQuarterNote", body |-> 96],
     [type |-> "TicksPerQuarterNote", body |-> 384],
     [type |-> "SMPTECompatible", body |-> <<-25, 40>>]}

\* Headers held in memory: length six or not, track counts from none on.
Headers ==
    [length : (6 - MaxHeaderSlack)..(6 + MaxHeaderSlack), format : Formats,
     nb_tracks : 0..MaxTracks, time_division : TimeScales]

EndOfTrackEvent == [type |-> "EndOfTrack", body |-> <<>>]

TrackEvents ==
    {[delta_time |-> [value |-> 0], event |-> EndOfTrackEvent],
     [delta_time |-> [value |-> 128], event |-> EndOfTrackEvent],
     [delta_time |-> [value |-> 0],
      event |-> [type |-> "NoteOn",
                 body |-> [channel |-> 0, key |-> 60, velocity |-> 64]]]}

Tracks ==
    {[length |-> 4,
      track_events |-> <<[delta_time |-> [value |-> 0],
                          event |-> EndOfTrackEvent]>>],
     [length |-> 0, track_events |-> <<>>]}

\* Header chunks in a reader: either tag, lengths around six with the bytes
\* they announce, formats 0 to 3, track counts from 0, three division words.
HeaderChunks ==
    {HeaderBytes(tag, len, fmt, n, div) \o [i \in 1..(len - 6) |-> 0] :
        tag \in {MThd, MTrk},
        len \in (6 - MaxHeaderSlack)..(6 + MaxHeaderSlack),
        fmt \in 0..3, n \in 0..MaxTracks, div \in {96, 384, 59176}}

\* Track events in a reader.
EventChunks ==
    {EndOfTrackRecord, <<129, 0, 255, 47, 0>>, NoteOnRecord, <<0, 255, 47>>}

InitExport ==
    /\ \/ /\ header \in {<<h>> : h \in Headers}
          /\ tracks \in SeqsUpTo(Tracks, MaxTracks)
          /\ track_events \in {<<te>> : te \in TrackEvents}
          /\ stream = <<>>
       \/ /\ header = <<>>
          /\ tracks = <<>>
          /\ track_events = <<>>
          /\ stream \in HeaderChunks \cup EventChunks
    /\ pos = 0
    /\ hist = <<>>
    /\ value = 0
    /\ written = <<>>
    /\ res = NoResult
    /\ saved = NoResult
    /\ prior = None
    /\ pc = "idle"
    /\ length = 0
    /\ read_bytes = 0
    /\ previous_location = 0
    /\ previous_code_byte = None
    /\ track_ret = NoResult
    /\ smf_ret = NoResult

\* An export call has returned or panicked: e is its outcome.
exported(e, op) ==
    /\ written' = written \o e.out
    /\ res' = IF e.ok THEN Ret(<<>>) ELSE Fail(e.err)
    /\ hist' = Append(hist, op)
    /\ UNCHANGED <<stream, pos, value, saved, prior, trackVars, smfVars>>

\* An import call has returned r.
imported(r, op) ==
    /\ res' = r
    /\ pos' = r.pos
    /\ hist' = Append(hist, op)
    /\ UNCHANGED <<stream, value, written, saved, prior, trackVars, smfVars>>

\* SMF { header, tracks }.export(&mut writer)
ExportSMF ==
    /\ hist = <<>> /\ header # <<>>
    /\ exported(SMF_export(header[1], tracks), "SMF::export")

\* header.export(&mut writer)
ExportHeader ==
    /\ hist = <<>> /\ header # <<>>
    /\ exported(SMFHeader_export(header[1]), "SMFHeader::export")

\* track_event.export(&mut writer)
ExportTrackEvent ==
    /\ hist = <<>> /\ track_events # <<>>
    /\ exported(TrackEvent_export(track_events[1]), "TrackEvent::export")

\* SMFHeader::import(&mut reader)
ImportHeaderChunk ==
    /\ hist = <<>> /\ stream # <<>>
    /\ imported(SMFHeader_import(stream, pos), "SMFHeader::import")

\* TrackEvent::import(&mut reader, None)
ImportTrackEvent ==
    /\ hist = <<>> /\ stream # <<>>
    /\ imported(TrackEvent_import(stream, pos, None), "TrackEvent::import")

NextExport ==
    ExportSMF \/ ExportHeader \/ ExportTrackEvent \/ ImportHeaderChunk
        \/ ImportTrackEvent

SpecExport == InitExport /\ [][NextExport]_vars

(***************************************************************************)
(* Properties of export and of the header, checked under SpecExport.       *)
(***************************************************************************)

\* C16: exporting the track event of delta-time 0 and event EndOfTrack writes
\* exactly the bytes 00 FF 2F 00, and importing these four bytes gives
\* delta-time 0 and EndOfTrack.
C16_EndOfTrackRoundTrip ==
    /\ ( /\ After("TrackEvent::export")
         /\ track_events[1] =
                [delta_time |-> [value |-> 0], event |-> EndOfTrackEvent] )
       => /\ res.ok
          /\ written = <<0, 255, 47, 0>>
    /\ ( /\ After("TrackEvent::import")
         /\ stream = <<0, 255, 47, 0>> )
       => /\ res.ok
          /\ res.val.track_event =
                 [delta_time |-> [value |-> 0], event |-> EndOfTrackEvent]
          /\ res.pos = 4

\* C17: SMF::export of a document whose header.nb_tracks differs from the
\* number of tracks it holds fails with VecHeaderTracksMismatch(nb_tracks,
\* tracks.len()) and writes no byte.
C17_TracksMismatch ==
    ( /\ After("SMF::export")
      /\ header[1].nb_tracks # Len(tracks) )
    => /\ ~res.ok
       /\ res.err = [kind |-> "VecHeaderTracksMismatch",
                     arg |-> <<header[1].nb_tracks, Len(tracks)>>]
       /\ written = <<>>

\* A header that is otherwise fit for export announces two tracks, and one
\* is held.
C17_Witness ==
    /\ hist = <<"SMF::export">>
    /\ header[1].length = 6
    /\ header[1].nb_tracks = 2
    /\ Len(tracks) = 1
    /\ res = Fail(VecHeaderTracksMismatch(2, 1))
    /\ written = <<>>

\* C18: SMFHeader::import on a chunk made of the tag 'MThd', the length 6, a
\* format in 0..2, a track count that is not 0 and a division word returns
\* that length, format, track count and time division; a division word
\* with the top bit clear is TicksPerQuarterNote of that word.
C18_HeaderImport ==
    After("SMFHeader::import") =>
        \A fmt \in 0..2, n \in 1..MaxTracks, div \in {96, 384, 59176} :
            stream = HeaderBytes(MThd, 6, fmt, n, div) =>
                /\ res.ok
                /\ res.val.length = 6
                /\ Format_get_value(res.val.format) = fmt
                /\ res.val.nb_tracks = n
                /\ div < 32768 =>
                       res.val.time_division =
                           [type |-> "TicksPerQuarterNote", body |-> div]
                /\ res.pos = 14

\* The two bytes of a time division in a file.
DivisionBytes(d) ==
    IF d.type = "TicksPerQuarterNote"
    THEN BE16(d.body)
    ELSE <<(d.body[1] + 256) % 256, d.body[2]>>

\* C19: SMFHeader::export of a header with length 6 and one track or more
\* writes 14 bytes: the tag 'MThd', the length 6 on 32 bits, then the format
\* value, the track count and the division on 16 bits each, big-endian.
C19_HeaderExport ==
    ( /\ After("SMFHeader::export")
      /\ header[1].length = 6
      /\ header[1].nb_tracks >= 1 )
    => /\ res.ok
       /\ Len(written) = 14
       /\ written = MThd \o BE32(6)
                      \o BE16(Format_get_value(header[1].format))
                      \o BE16(header[1].nb_tracks)
                      \o DivisionBytes(header[1].time_division)

(***************************************************************************)
(* VLV::partial_import against VLV::import, checked under SpecVLV.         *)
(***************************************************************************)

\* C20: VLV::partial_import(s, b) has the outcome of VLV::import on b
\* followed by s: the same value or the same error, and the cursor at the
\* same byte of s, chains of four continuation bytes and streams that end
\* inside the chain included.
C20_PartialImportEqualsImport ==
    After("partial_import") => res = saved

(***************************************************************************)
(* Running status along a track, checked under SpecTrack.                  *)
(***************************************************************************)

\* The status byte in effect for the event behind the delta-time dt: the
\* byte there when its high bit is set, else the one inherited.
status_byte_at(s, dt, inherited) ==
    IF s[dt.pos + 1] >= 128 THEN s[dt.pos + 1] ELSE inherited

\* The effective status byte of the k-th record of the event stream of s,
\* read off the bytes; None in front of the first.
RECURSIVE StatusOfRecord(_, _)
StatusOfRecord(s, k) ==
    IF k = 0 THEN None
    ELSE status_byte_at(s, VLV_import(s, FirstRecords(s, k - 1).pos),
                        StatusOfRecord(s, k - 1))

\* C21: in SMFTrack::import the previous status handed to the decode of
\* every event after the first is the effective status byte of the event
\* just before it in the track, the byte that event carried or the one it
\* inherited, whether a channel, meta or system-exclusive event; its high
\* bit is set.
C21_StatusThreaded ==
    ( /\ pc = "while"
      /\ track_events # <<>>
      /\ while_condition(read_bytes, length) )
    => /\ previous_code_byte = StatusOfRecord(stream, Len(track_events))
       /\ previous_code_byte >= 128

\* A system-exclusive event F0 and one that inherits F0 have been decoded,
\* and a third record is about to be decoded with F0 as previous status.
C21_Witness ==
    /\ pc = "while"
    /\ stream = Chunk(9, SysexF0Record \o RunningSysexRecord \o NoteOnRecord)
    /\ Len(track_events) = 2
    /\ track_events[2].event.type = "SystemExclusiveF0"
    /\ while_condition(read_bytes, length)
    /\ previous_code_byte = 240

(***************************************************************************)
(* Meta events without a decoder, checked under SpecEvent.                 *)
(***************************************************************************)

\* The meta sub-types Event::import has a decoder for.
KnownMetaSubtypes == (0..9) \cup {32, 33, 47, 81, 84, 88, 89}

\* The n bytes of the stream behind offset p.
BytesAt(p, n) == [i \in 1..n |-> stream[p + i]]

\* C22: Event::import never returns SequencerSpecificEvent; a meta event of
\* sub-type 7F, as of any sub-type it has no decoder for, is returned as
\* UnknownMetaEvent with the declared length and that many payload bytes,
\* as they are in the stream.
C22_UnknownMetaEvent ==
    /\ ( After("import") /\ res.ok )
       => res.val.event.type # "SequencerSpecificEvent"
    /\ ( /\ MetaDecoded
         /\ MetaSubtype \notin KnownMetaSubtypes
         /\ MetaLength.ok
         /\ Len(stream) >= MetaLength.pos + MetaLength.val.value )
       => /\ res.ok
          /\ res.val.event =
                 [type |-> "UnknownMetaEvent",
                  body |-> [length |-> [value |-> MetaLength.val.value],
                            data |-> BytesAt(MetaLength.pos,
                                             MetaLength.val.value)]]
          /\ res.pos = MetaLength.pos + MetaLength.val.value

\* FF 7F 02 00 01: sub-type 7F, declared length 2.
C22_Witness ==
    /\ hist = <<"import">>
    /\ prior = None
    /\ stream = <<255, 127, 2, 0, 1>>
    /\ res.ok
    /\ res.val.event = [type |-> "UnknownMetaEvent",
                        body |-> [length |-> [value |-> 2], data |-> <<0, 1>>]]

====
